---- MODULE Spec2Model ----
(***************************************************************************)
(* Reorganization engine of the bookmark organizer:                        *)
(*   - CategorizationNormalizer (aiService.ts, normalizeCategorizationOutput)*)
(*   - ReorganizationApplier    (SessionsTab.tsx, handleApplyChanges /      *)
(*                               handleUndoChanges)                         *)
(*   - UndoRedoStack            (useUndoRedo hook)                          *)
(* against a model of the bookmark store behind chromeBookmarkService.      *)
(***************************************************************************)
EXTENDS Integers, Sequences, FiniteSets, TLC

VARIABLES
    nCand,      \* normalizer: the parsed candidate value (`output`)
    nBk,        \* normalizer: the input bookmark list (`bookmarks`)
    nOut,       \* normalizer: result of the first run
    nTwice,     \* normalizer: result of running it again on its own output
    nPc,        \* normalizer: "input" | "once" | "twice"
    store,      \* bookmark store: node id -> [title, url, kids]
    nextId,     \* next id the store assigns
    aiCategorizedBookmarks, \* SessionsTab state: the scanned mapping, or none
    bookmarkBackup,         \* SessionsTab state: { bar, other } snapshots, or none
    hasAppliedChanges,      \* SessionsTab state
    bookmarkError,          \* SessionsTab state: an error message is shown
    runs,       \* the invocations of handleApplyChanges / handleUndoChanges
    started,    \* number of invocations so far
    failures,   \* number of store calls that failed for a reason outside the model
    mon,        \* observer: the trees around an Apply / Undo that ran alone
    undoStack,  \* useUndoRedo state: frames that can be undone, newest first
    redoStack,  \* useUndoRedo state: frames that can be redone, newest first
    calls,      \* the invocations of performUndo / performRedo / clearHistory
    nextFrame,  \* number of frames generateId has named
    evicted,    \* observer: ids of the frames addUndoFrame sliced off
    mAnswer,    \* categorizeBookmarks: what the model call gave (a text, or a throw)
    mBk,        \* categorizeBookmarks: the input bookmark list
    mOut,       \* categorizeBookmarks: what extractJsonObject returned
    mResult,    \* categorizeBookmarks: the mapping returned
    mPc         \* categorizeBookmarks: "off" | "asked" | "returned"

normVars == <<nCand, nBk, nOut, nTwice, nPc>>
appVars == <<store, nextId, aiCategorizedBookmarks, bookmarkBackup, hasAppliedChanges,
             bookmarkError, runs, started, failures, mon>>

stackVars == <<undoStack, redoStack, calls, nextFrame, evicted>>
textVars == <<mAnswer, mBk, mOut, mResult, mPc>>

vars == <<nCand, nBk, nOut, nTwice, nPc,
          store, nextId, aiCategorizedBookmarks, bookmarkBackup, hasAppliedChanges,
          bookmarkError, runs, started, failures, mon,
          undoStack, redoStack, calls, nextFrame, evicted,
          mAnswer, mBk, mOut, mResult, mPc>>

(***************************************************************************)
(* Generic helpers                                                         *)
(***************************************************************************)

\* All sequences over S of length at most n.
SeqsUpTo(S, n) == UNION {[1..k -> S] : k \in 0..n}

\* Sequences without a repeated element.
DistinctSeqs(S, n) ==
    {s \in SeqsUpTo(S, n) : \A i, j \in 1..Len(s) : i # j => s[i] # s[j]}

\* Sequences of <<key, value>> pairs, keys unique (the entries of a JS object).
ObjEntries(K, V, n) ==
    {s \in SeqsUpTo(K \X V, n) : \A i, j \in 1..Len(s) : i # j => s[i][1] # s[j][1]}

RECURSIVE SumSeq(_)
SumSeq(s) == IF s = <<>> THEN 0 ELSE Head(s) + SumSeq(Tail(s))

(***************************************************************************)
(* CategorizationNormalizer                                                *)
(***************************************************************************)

\* Bounds of the normalizer inputs.
MaxBookmarks == 2
MaxCats == 2
MaxEntries == 2

Titles == {"A", "B"}
Urls == {"ua", "ub"}
CatNames == {"Cat1", "Other"}

\* A parsed JSON value: t is the JS shape, s the string (for t = "str"),
\* e the own entries in Object.entries order (for t = "obj").
JNull == [t |-> "null", s |-> "", e |-> <<>>]
JNum == [t |-> "num", s |-> "", e |-> <<>>]
JArr == [t |-> "arr", s |-> "", e |-> <<>>]
JStr(x) == [t |-> "str", s |-> x, e |-> <<>>]
JObj(entries) == [t |-> "obj", s |-> "", e |-> entries]

\* Values an entry of a category can carry: a url string, or a non-string.
EntryValues == {JStr(u) : u \in Urls} \cup {JNum}
\* Values a category can carry: a title -> value object, or a non-mapping.
CategoryValues ==
    {JObj(e) : e \in ObjEntries(Titles, EntryValues, MaxEntries)}
        \cup {JNull, JStr("x"), JArr}
\* Candidate model outputs: an object of categories, or garbage.
Candidates ==
    {JObj(e) : e \in ObjEntries(CatNames, CategoryValues, MaxCats)}
        \cup {JNull, JStr("x"), JArr}

Bookmark(t, u) == [title |-> t, url |-> u]
AllBookmarks == {Bookmark(t, u) : t \in Titles, u \in Urls}
\* Input lists: distinct (title, url) pairs.
BookmarkLists == DistinctSeqs(AllBookmarks, MaxBookmarks)

\* output && typeof output === 'object' && !Array.isArray(output)
IsPlainObject(v) == v.t = "obj"

\* Mutant: every entry is kept, whatever its value.
ValidMapAll(entries) ==
    [i \in 1..Len(entries) |-> Bookmark(entries[i][1], entries[i][2].s)]

\* .filter(typeof url === 'string').reduce(acc[title] = url)
ValidMap(entries) ==
    LET kept == SelectSeq(entries, LAMBDA p : p[2].t = "str")
    IN  [i \in 1..Len(kept) |-> Bookmark(kept[i][1], kept[i][2].s)]

\* The forEach over Object.entries(output): categories with a non-empty validMap.
RECURSIVE AcceptCategories(_)
AcceptCategories(entries) ==
    IF entries = <<>> THEN <<>>
    ELSE LET cat == Head(entries)[1]
             mapping == Head(entries)[2]
             rest == AcceptCategories(Tail(entries))
         IN  IF IsPlainObject(mapping) /\ ValidMap(mapping.e) # <<>>
             THEN <<[cat |-> cat, items |-> ValidMap(mapping.e)]>> \o rest
             ELSE rest

HasCategory(result, name) == \E i \in 1..Len(result) : result[i].cat = name

\* Mutant: the Other bucket is not created when the candidate gave none.
EnsureOtherNever(result) == result

\* if (!result['Other']) result['Other'] = {};
EnsureOther(result) ==
    IF HasCategory(result, "Other") THEN result
    ELSE Append(result, [cat |-> "Other", items |-> <<>>])

PresentByUrl(result) ==
    UNION {{result[i].items[j].url : j \in 1..Len(result[i].items)} :
              i \in 1..Len(result)} \ {""}
PresentByTitle(result) ==
    UNION {{result[i].items[j].title : j \in 1..Len(result[i].items)} :
              i \in 1..Len(result)} \ {""}

\* Mutant: presence decided by URL alone, without the title fallback.
IsMissingUrlOnly(b, byUrl, byTitle) == b.url \notin byUrl

\* !presentByUrl.has(b.url) && !presentByTitle.has(b.title)
IsMissing(b, byUrl, byTitle) == b.url \notin byUrl /\ b.title \notin byTitle

\* obj[title] = url : replaces the value of an existing key in place, else appends.
SetEntry(items, title, url) ==
    IF \E j \in 1..Len(items) : items[j].title = title
    THEN [j \in 1..Len(items) |->
            IF items[j].title = title THEN Bookmark(title, url) ELSE items[j]]
    ELSE Append(items, Bookmark(title, url))

SetOther(result, title, url) ==
    [i \in 1..Len(result) |->
        IF result[i].cat = "Other"
        THEN [cat |-> "Other", items |-> SetEntry(result[i].items, title, url)]
        ELSE result[i]]

\* for (const b of bookmarks) if (missing) result['Other'][b.title] = b.url;
\* the two presence sets are computed once, before the loop.
RECURSIVE AddMissing(_, _, _, _)
AddMissing(result, bookmarks, byUrl, byTitle) ==
    IF bookmarks = <<>> THEN result
    ELSE LET b == Head(bookmarks)
             next == IF IsMissing(b, byUrl, byTitle)
                     THEN SetOther(result, b.title, b.url)
                     ELSE result
         IN  AddMissing(next, Tail(bookmarks), byUrl, byTitle)

normalizeCategorizationOutput(output, bookmarks) ==
    LET accepted == IF IsPlainObject(output) THEN AcceptCategories(output.e) ELSE <<>>
        result == EnsureOther(accepted)
    IN  AddMissing(result, bookmarks, PresentByUrl(result), PresentByTitle(result))

\* A CategoryMapping handed back to the normalizer as its `output` argument.
AsJson(mapping) ==
    JObj([i \in 1..Len(mapping) |->
            <<mapping[i].cat,
              JObj([j \in 1..Len(mapping[i].items) |->
                      <<mapping[i].items[j].title, JStr(mapping[i].items[j].url)>>])>>])

(***************************************************************************)
(* Bookmark store (chrome.bookmarks behind chromeBookmarkService)          *)
(***************************************************************************)

\* The two roots the engine rewrites: Bookmarks Bar ('1') and Other Bookmarks ('2').
BarRoot == 1
OtherRoot == 2
Roots == {BarRoot, OtherRoot}

\* `url` of a folder node: undefined.
NoUrl == "undefined"
\* if (n.url) : neither undefined nor the empty string
Truthy(u) == u # NoUrl /\ u # ""

Node(t, u, k) == [title |-> t, url |-> u, kids |-> k]

EmptyStore == [i \in Roots |-> Node("", NoUrl, <<>>)]

Exists(st, id) == id \in DOMAIN st

RECURSIVE Descendants(_, _)
\* id and everything below it.
Descendants(st, id) ==
    {id} \cup UNION {Descendants(st, st[id].kids[j]) : j \in 1..Len(st[id].kids)}

RemoveFromSeq(s, x) == SelectSeq(s, LAMBDA y : y # x)

\* Mutant: the new node is put first among its siblings instead of last.
createBookmarkFirst(st, parentId, title, url, id) ==
    [i \in DOMAIN st \cup {id} |->
        IF i = id THEN Node(title, url, <<>>)
        ELSE IF i = parentId THEN [st[i] EXCEPT !.kids = <<id>> \o @]
        ELSE st[i]]

\* chrome.bookmarks.create({parentId, title, url?}) with no index: the node gets
\* the id the store assigns and becomes the last child of parentId.
createBookmark(st, parentId, title, url, id) ==
    [i \in DOMAIN st \cup {id} |->
        IF i = id THEN Node(title, url, <<>>)
        ELSE IF i = parentId THEN [st[i] EXCEPT !.kids = Append(@, id)]
        ELSE st[i]]

\* chrome.bookmarks.removeTree(id): the node and its whole subtree go.
removeBookmarkTree(st, id) ==
    LET gone == Descendants(st, id)
    IN  [i \in DOMAIN st \ gone |->
            [st[i] EXCEPT !.kids = RemoveFromSeq(@, id)]]

\* chrome.bookmarks.getChildren(parentId): the direct children, in order.
getChildren(st, parentId) == st[parentId].kids

\* The structure under a node, as an observer sees it (no ids).
RECURSIVE TreeOf(_, _)
TreeOf(st, id) ==
    [title |-> st[id].title,
     url |-> st[id].url,
     folder |-> ~Truthy(st[id].url),
     sub |-> [j \in 1..Len(st[id].kids) |-> TreeOf(st, st[id].kids[j])]]

\* What is under the two roots.
RootsTree(st) == <<TreeOf(st, BarRoot).sub, TreeOf(st, OtherRoot).sub>>

RECURSIVE LeavesOf(_)
\* The (title, url) leaves of a forest, with repetitions, as a sequence.
LeavesOf(forest) ==
    IF forest = <<>> THEN <<>>
    ELSE LET n == Head(forest)
         IN  (IF n.folder THEN LeavesOf(n.sub) ELSE <<Bookmark(n.title, n.url)>>)
                \o LeavesOf(Tail(forest))

\* How many times leaf b occurs in a sequence of leaves.
CountIn(leaves, b) == Cardinality({i \in 1..Len(leaves) : leaves[i] = b})

SameLeafMultiset(t1, t2) ==
    LET l1 == LeavesOf(t1[1] \o t1[2])
        l2 == LeavesOf(t2[1] \o t2[2])
    IN  /\ Len(l1) = Len(l2)
        /\ \A i \in 1..Len(l1) : CountIn(l1, l1[i]) = CountIn(l2, l1[i])

(***************************************************************************)
(* TreeSnapshot (handleApplyChanges: snapshotNode, snapshotChildren)       *)
(***************************************************************************)

RECURSIVE snapshotNodeWithId(_, _)
\* Mutant: the snapshot keeps the store id of every node.
snapshotNodeWithId(st, id) ==
    [title |-> st[id].title,
     url |-> st[id].url,
     id |-> id,
     children |-> [j \in 1..Len(st[id].kids) |-> snapshotNodeWithId(st, st[id].kids[j])]]

RECURSIVE snapshotNode(_, _)
\* { title, url, children: (node.children || []).map(snapshotNode) }
snapshotNode(st, id) ==
    [title |-> st[id].title,
     url |-> st[id].url,
     children |-> [j \in 1..Len(st[id].kids) |-> snapshotNode(st, st[id].kids[j])]]

\* getSubTree(rootId)[0].children.map(snapshotNode)
snapshotChildren(st, rootId) ==
    [j \in 1..Len(st[rootId].kids) |-> snapshotNode(st, st[rootId].kids[j])]

(***************************************************************************)
(* SessionsTab: scan, forward Apply, restore (Undo)                        *)
(***************************************************************************)

\* Bounds of the application runs.
MaxUserNodes == 3
MaxRuns == 2
MaxFailures == 1

\* The bookmarks handleScanLibrary extracts (the tree it scans is the built-in
\* mockBookmarks, not the store); two of them stand for the list.
MockBookmarks == <<Bookmark("A", "ua"), Bookmark("B", "ub")>>

\* What the user can have in the store before the engine runs.
UserLeaves == {Bookmark("C", "uc")}
UserFolderTitle == "F"

\* Replies of the categorization model as categorizeBookmarks sees them after
\* extractJsonObject: no parseable candidate, or a parsed object.
ModelReplies ==
    { [parsed |-> FALSE, v |-> JNull],
      [parsed |-> TRUE,
       v |-> JObj(<< <<"Cat1", JObj(<< <<"A", JStr("ua")>> >>)>> >>)],
      [parsed |-> TRUE,
       v |-> JObj(<< <<"Cat1", JObj(<< <<"B", JStr("ub")>>, <<"A", JStr("ua")>> >>)>> >>)] }

RECURSIVE FallbackItems(_, _)
\* bookmarks.forEach(b => fallback["Other"][b.title] = b.url)
FallbackItems(items, bookmarks) ==
    IF bookmarks = <<>> THEN items
    ELSE FallbackItems(SetEntry(items, Head(bookmarks).title, Head(bookmarks).url),
                       Tail(bookmarks))

\* categorizeBookmarks: the normalized candidate; on any failure (no JSON found,
\* model call failed) everything under "Other".
categorizeBookmarks(reply, bookmarks) ==
    IF reply.parsed
    THEN normalizeCategorizationOutput(reply.v, bookmarks)
    ELSE <<[cat |-> "Other", items |-> FallbackItems(<<>>, bookmarks)]>>

NoMapping == [has |-> FALSE, m |-> <<>>]
NoBackup == [held |-> FALSE, bar |-> <<>>, other |-> <<>>]
Pending == [got |-> FALSE, v |-> <<>>]
Got(v) == [got |-> TRUE, v |-> v]
IdleChain == [st |-> "idle", todo |-> <<>>]
FetchChain == [st |-> "fetch", todo |-> <<>>]
DoneChain == [st |-> "done", todo |-> <<>>]

\* One invocation of handleApplyChanges ("apply") or handleUndoChanges ("undo").
\*   pc:  "snap" (awaiting the two snapshotChildren), "clear" (awaiting the two
\*        deleteAllChildren), "recreate", "restore", then "done" or "failed"
\*   ch:  per root, the deleteAllChildren call: "fetch" (awaiting getChildren),
\*        "rm" (removing the children in todo), "done"
\*   structure, cat, ent, folder: the mapping and the position of the Recreate loop
\*   bk, work: the backup the Undo closure holds and the restoreChildren call stack
\*   removed: whether the invocation has issued a removeBookmarkTree call yet
UnusedRun ==
    [kind |-> "none", pc |-> "unused", structure |-> <<>>,
     bar |-> Pending, other |-> Pending,
     ch |-> [r \in Roots |-> IdleChain],
     cat |-> 0, ent |-> 0, folder |-> 0,
     bk |-> NoBackup, work |-> <<>>, removed |-> FALSE]

ChainActive(c) == c.st \in {"fetch", "rm"}

\* A run is active from its first store call to its last one.
RunActive(run) ==
    \/ run.pc \in {"snap", "clear", "recreate", "restore"}
    \/ run.pc = "failed" /\ \E r \in Roots : ChainActive(run.ch[r])

ActiveRuns == {k \in DOMAIN runs : RunActive(runs[k])}

NoMon == [stage |-> "none", pre |-> <<>>, post |-> <<>>, used |-> NoBackup,
          final |-> <<>>, resnap |-> <<>>, store0 |-> EmptyStore]

AppQuiet ==
    /\ store = EmptyStore
    /\ nextId = 3
    /\ aiCategorizedBookmarks = NoMapping
    /\ bookmarkBackup = NoBackup
    /\ hasAppliedChanges = FALSE
    /\ bookmarkError = FALSE
    /\ runs = [k \in 1..MaxRuns |-> UnusedRun]
    /\ started = 0
    /\ failures = 0
    /\ mon = NoMon

NormQuiet ==
    /\ nCand = JNull
    /\ nBk = <<>>
    /\ nOut = <<>>
    /\ nTwice = <<>>
    /\ nPc = "off"

(***************************************************************************)
(* Model text and JSON (aiService.ts, extractJsonObject, JSON.parse)       *)
(***************************************************************************)

\* A text is a sequence of tokens: the JSON punctuation, a white space, the
\* code fence (three backquotes), the word json, and words without punctuation.
LBrace == "{"
RBrace == "}"
LBracket == "["
RBracket == "]"
Comma == ","
Colon == ":"
Quote == "\""
Space == " "
Fence == "<fence>"
JsonWord == "json"

RECURSIVE Concat(_)
\* the string the tokens between two quotes spell
Concat(s) == IF s = <<>> THEN "" ELSE Head(s) \o Concat(Tail(s))

JArrOf(elements) == [t |-> "arr", s |-> "", e |-> elements]

Failed == [ok |-> FALSE, v |-> JNull, p |-> 0]
Parsed(v, p) == [ok |-> TRUE, v |-> v, p |-> p]

At(s, p) == IF p \in 1..Len(s) THEN s[p] ELSE "end of text"

RECURSIVE SkipWs(_, _)
SkipWs(s, p) == IF At(s, p) = Space THEN SkipWs(s, p + 1) ELSE p

\* first position >= p that holds token c, or 0
IndexFrom(s, c, p) ==
    LET hits == {q \in p..Len(s) : s[q] = c}
    IN  IF hits = {} THEN 0 ELSE CHOOSE q \in hits : \A r \in hits : q <= r

\* last position that holds token c, or 0
LastIndexOf(s, c) ==
    LET hits == {q \in 1..Len(s) : s[q] = c}
    IN  IF hits = {} THEN 0 ELSE CHOOSE q \in hits : \A r \in hits : q >= r

\* JSON string at p: everything up to the next quote.
ParseString(s, p) ==
    LET q == IndexFrom(s, Quote, p + 1)
    IN  IF At(s, p) # Quote \/ q = 0 THEN Failed
        ELSE Parsed(JStr(Concat(SubSeq(s, p + 1, q - 1))), q + 1)

\* obj[key] = value: a repeated key keeps its place and takes the last value.
SetKey(entries, key, value) ==
    IF \E j \in 1..Len(entries) : entries[j][1] = key
    THEN [j \in 1..Len(entries) |->
            IF entries[j][1] = key THEN <<key, value>> ELSE entries[j]]
    ELSE Append(entries, <<key, value>>)

RECURSIVE ParseValue(_, _)
RECURSIVE ParseMembers(_, _, _)
RECURSIVE ParseElements(_, _, _)

\* members of an object, p at the first token of a member
ParseMembers(s, p, acc) ==
    LET key == ParseString(s, SkipWs(s, p))
        colon == SkipWs(s, key.p)
        val == ParseValue(s, colon + 1)
        next == SkipWs(s, val.p)
    IN  IF ~key.ok \/ At(s, colon) # Colon THEN Failed
        ELSE IF ~val.ok THEN Failed
        ELSE IF At(s, next) = Comma
             THEN ParseMembers(s, next + 1, SetKey(acc, key.v.s, val.v))
        ELSE IF At(s, next) = RBrace
             THEN Parsed(JObj(SetKey(acc, key.v.s, val.v)), next + 1)
        ELSE Failed

\* elements of an array, p at the first token of an element
ParseElements(s, p, acc) ==
    LET val == ParseValue(s, p)
        next == SkipWs(s, val.p)
    IN  IF ~val.ok THEN Failed
        ELSE IF At(s, next) = Comma
             THEN ParseElements(s, next + 1, Append(acc, val.v))
        ELSE IF At(s, next) = RBracket
             THEN Parsed(JArrOf(Append(acc, val.v)), next + 1)
        ELSE Failed

ParseValue(s, p) ==
    LET q == SkipWs(s, p)
        c == At(s, q)
        in == SkipWs(s, q + 1)
    IN  IF c = LBrace
        THEN IF At(s, in) = RBrace THEN Parsed(JObj(<<>>), in + 1)
             ELSE ParseMembers(s, in, <<>>)
        ELSE IF c = LBracket
        THEN IF At(s, in) = RBracket THEN Parsed(JArrOf(<<>>), in + 1)
             ELSE ParseElements(s, in, <<>>)
        ELSE IF c = Quote THEN ParseString(s, q)
        ELSE Failed

\* JSON.parse(s): one value with nothing but white space around it, or a throw.
JSONparse(s) ==
    LET r == ParseValue(s, 1)
    IN  IF r.ok /\ SkipWs(s, r.p) = Len(s) + 1 THEN r ELSE Failed

RECURSIVE JSONstringify(_)
\* JSON.stringify(v) of a parsed value, a string being one token between quotes.
JSONstringify(v) ==
    LET RECURSIVE Members(_)
        Members(j) ==
            IF j > Len(v.e) THEN <<>>
            ELSE (IF j > 1 THEN <<Comma>> ELSE <<>>)
                 \o (IF v.t = "obj"
                     THEN <<Quote, v.e[j][1], Quote, Colon>> \o JSONstringify(v.e[j][2])
                     ELSE JSONstringify(v.e[j]))
                 \o Members(j + 1)
    IN  IF v.t = "str" THEN <<Quote, v.s, Quote>>
        ELSE IF v.t = "obj" THEN <<LBrace>> \o Members(1) \o <<RBrace>>
        ELSE <<LBracket>> \o Members(1) \o <<RBracket>>

\* .replace(/^```json\s*/i, ''): a fence and the word json at the very start go,
\* with the white space after them.
StripLeadingFence(s) ==
    IF At(s, 1) = Fence /\ At(s, 2) = JsonWord
    THEN SubSeq(s, SkipWs(s, 3), Len(s))
    ELSE s

\* .replace(/```\s*$/i, ''): a fence with nothing but white space after it goes.
StripTrailingFence(s) ==
    LET q == LastIndexOf(s, Fence)
    IN  IF q # 0 /\ SkipWs(s, q + 1) = Len(s) + 1 THEN SubSeq(s, 1, q - 1) ELSE s

RECURSIVE TrimEnd(_)
TrimEnd(s) == IF s # <<>> /\ s[Len(s)] = Space THEN TrimEnd(SubSeq(s, 1, Len(s) - 1)) ELSE s

\* .trim()
Trim(s) == TrimEnd(SubSeq(s, SkipWs(s, 1), Len(s)))

\* cleaned.match(/```(?:json)?\s*([\s\S]*?)```/i): group 1 of the first match, the
\* text between the first fence (and json, and white space) and the next fence.
FencedMatch(s) ==
    LET open == IndexFrom(s, Fence, 1)
        from == SkipWs(s, IF At(s, open + 1) = JsonWord THEN open + 2 ELSE open + 1)
        close == IndexFrom(s, Fence, open + 1)
    IN  IF open = 0 \/ close = 0 THEN [matched |-> FALSE, group |-> <<>>]
        ELSE [matched |-> TRUE, group |-> SubSeq(s, from, close - 1)]

RECURSIVE stripTrailingCommas(_)
\* s.replace(/,\s*([}\]])/g, '$1'): a comma, the white space after it and a
\* closing brace or bracket become the closing brace or bracket, wherever
\* they stand in the text.
stripTrailingCommas(s) ==
    IF s = <<>> THEN <<>>
    ELSE LET q == SkipWs(s, 2)
         IN  IF Head(s) = Comma /\ At(s, q) \in {RBrace, RBracket}
             THEN <<s[q]>> \o stripTrailingCommas(SubSeq(s, q + 1, Len(s)))
             ELSE <<Head(s)>> \o stripTrailingCommas(Tail(s))

\* if (parsed): every object and array, and every string but the empty one.
TruthyValue(v) == v.t # "str" \/ v.s # ""

\* tryParse(s): JSON.parse(stripTrailingCommas(s)), undefined when it throws.
tryParse(s) ==
    LET r == JSONparse(stripTrailingCommas(s))
    IN  IF r.ok /\ TruthyValue(r.v) THEN r ELSE Failed

RECURSIVE BraceScan(_, _, _, _, _)
\* The last resort: bestStart is the first opening brace met at depth 0, bestEnd
\* the last closing brace that brings the depth back to 0.
BraceScan(s, i, depth, bestStart, bestEnd) ==
    IF i > Len(s) THEN [start |-> bestStart, end |-> bestEnd]
    ELSE IF s[i] = LBrace
         THEN BraceScan(s, i + 1, depth + 1,
                        IF depth = 0 /\ bestStart = 0 THEN i ELSE bestStart, bestEnd)
    ELSE IF s[i] = RBrace /\ depth > 0
         THEN BraceScan(s, i + 1, depth - 1, bestStart,
                        IF depth = 1 THEN i ELSE bestEnd)
    ELSE BraceScan(s, i + 1, depth, bestStart, bestEnd)

NotFound == [found |-> FALSE, json |-> <<>>]
Found(v) == [found |-> TRUE, json |-> JSONstringify(v)]

\* extractJsonObject(text): the JSON text of the first candidate that parses,
\* or null.
extractJsonObject(text) ==
    LET unfenced == Trim(StripTrailingFence(StripLeadingFence(text)))
        fenced == FencedMatch(unfenced)
        cleaned == IF fenced.matched /\ fenced.group # <<>>
                   THEN Trim(fenced.group) ELSE unfenced
        direct == tryParse(cleaned)
        firstBrace == IndexFrom(cleaned, LBrace, 1)
        lastBrace == LastIndexOf(cleaned, RBrace)
        sliced == tryParse(SubSeq(cleaned, firstBrace, lastBrace))
        best == BraceScan(cleaned, 1, 0, 0, 0)
        scanned == tryParse(SubSeq(cleaned, best.start, best.end))
    IN  IF text = <<>> THEN NotFound
        ELSE IF At(cleaned, 1) = LBrace /\ lastBrace # 0 /\ direct.ok
             THEN Found(direct.v)
        ELSE IF firstBrace # 0 /\ lastBrace # 0 /\ lastBrace > firstBrace /\ sliced.ok
             THEN Found(sliced.v)
        ELSE IF best.start # 0 /\ best.end # 0 /\ scanned.ok
             THEN Found(scanned.v)
        ELSE NotFound

(***************************************************************************)
(* categorizeBookmarks on a model text                                     *)
(***************************************************************************)

MaxString == 2      \* tokens in the string value of a rendered object

\* What a string value of the model's answer is made of.
StringTokens == {"ua", Comma, LBrace, RBrace, RBracket}
StringSpecs == SeqsUpTo(StringTokens, MaxString) \ {<<>>}

\* The object { "Cat1": { "A": <string>, "B": "ub" } } ...
ValueOf(str) ==
    JObj(<< <<"Cat1", JObj(<< <<"A", JStr(Concat(str))>>, <<"B", JStr("ub")>> >>)>> >>)

\* ... and its text, with `trailing` before each of the two closing braces.
RenderValue(str, trailing) ==
    <<LBrace, Quote, "Cat1", Quote, Colon,
      LBrace, Quote, "A", Quote, Colon, Quote>> \o str \o
    <<Quote, Comma, Quote, "B", Quote, Colon, Quote, "ub", Quote>> \o
    trailing \o <<RBrace>> \o trailing \o <<RBrace>>

TrailingCommas == {<<>>, <<Comma, Space>>}
FenceStyles == {"none", "json", "plain"}
ProseBefore == {<<>>, <<"Here", Space>>}
ProseAfter == {<<>>, <<Space, "Done">>}

\* The text of the model's answer: the object in a fenced block or bare, prose
\* around it.
Render(body, fence, before, after) ==
    before
    \o (IF fence = "json" THEN <<Fence, JsonWord, Space>>
        ELSE IF fence = "plain" THEN <<Fence, Space>> ELSE <<>>)
    \o body
    \o (IF fence = "none" THEN <<>> ELSE <<Space, Fence>>)
    \o after

\* Inputs: a rendered object with the value it renders, ...
RenderedAnswers ==
    {[failed |-> FALSE, rendered |-> TRUE, kind |-> "single", value |-> ValueOf(str),
      text |-> Render(RenderValue(str, tc), f, b, a)] :
        str \in StringSpecs, tc \in TrailingCommas, f \in FenceStyles,
        b \in ProseBefore, a \in ProseAfter}

\* ... a text without an object that parses, ...
GarbageTexts ==
    {<<>>, <<"Here">>, <<LBrace>>, <<LBrace, "Here", RBrace>>, <<RBrace, LBrace>>,
     <<Quote, "A", Quote>>, <<Fence, JsonWord, Space, "Here", Space, Fence>>}

GarbageAnswers ==
    {[failed |-> FALSE, rendered |-> FALSE, kind |-> "none", value |-> JNull,
      text |-> t] : t \in GarbageTexts}

\* ... or a model call that threw.
FailedCall ==
    [failed |-> TRUE, rendered |-> FALSE, kind |-> "none", value |-> JNull,
     text |-> <<>>]

\* One fenced block.
Block(body, fence) ==
    (IF fence = "json" THEN <<Fence, JsonWord, Space>> ELSE <<Fence, Space>>)
    \o body \o <<Space, Fence>>

BlockStyles == {"json", "plain"}
ProseBetween == {<<Space>>, <<Space, "Here", Space>>}

\* Two objects in two fenced blocks, prose around and between them; value is
\* the object of the first block.
TwoBlockAnswers ==
    {[failed |-> FALSE, rendered |-> FALSE, kind |-> "blocks",
      value |-> ValueOf(<<"ua">>),
      text |-> b \o Block(RenderValue(<<"ua">>, <<>>), f1) \o m
                 \o Block(RenderValue(<<"ua", "ua">>, <<>>), f2) \o a] :
        f1 \in BlockStyles, f2 \in BlockStyles, b \in ProseBefore,
        m \in ProseBetween, a \in ProseAfter}

\* What follows the object in a text without fences: further braces.
BracesAfter ==
    {<<Space, LBrace>>, <<Space, RBrace>>, <<Space, LBrace, "Here", RBrace>>,
     <<Space, "Here", Space, LBrace, RBrace>>}

\* An object followed by further braces; value is the object.
BracesAnswers ==
    {[failed |-> FALSE, rendered |-> FALSE, kind |-> "braces",
      value |-> ValueOf(<<"ua">>),
      text |-> b \o RenderValue(<<"ua">>, <<>>) \o t] :
        b \in ProseBefore, t \in BracesAfter}

ModelAnswers ==
    RenderedAnswers \cup GarbageAnswers \cup {FailedCall}
        \cup TwoBlockAnswers \cup BracesAnswers

\* jsonCandidate = extractJsonObject(text); parsed = JSON.parse(jsonCandidate),
\* or the throw that leads to the fallback.
ReplyOf(answer) ==
    LET candidate == extractJsonObject(answer.text)
    IN  IF answer.failed \/ ~candidate.found THEN [parsed |-> FALSE, v |-> JNull]
        ELSE [parsed |-> TRUE, v |-> JSONparse(candidate.json).v]

TextQuiet ==
    /\ mAnswer = FailedCall
    /\ mBk = <<>>
    /\ mOut = NotFound
    /\ mResult = <<>>
    /\ mPc = "off"

(***************************************************************************)
(* UndoRedoStack (useUndoRedo hook)                                        *)
(***************************************************************************)

\* prev.slice(0, 49): the frames addUndoFrame keeps below the new one.
KeepPrev == 49

MaxFrames == 52     \* addUndoFrame calls
MaxCalls == 2       \* performUndo / performRedo / clearHistory invocations

\* The parent of a node of the store, and its position among the children.
ParentOf(st, id) == CHOOSE p \in DOMAIN st : \E j \in 1..Len(st[p].kids) : st[p].kids[j] = id
IndexOf(st, id) ==
    LET k == st[ParentOf(st, id)].kids
    IN  (CHOOSE j \in 1..Len(k) : k[j] = id) - 1

InsertAt(s, j, x) == SubSeq(s, 1, j) \o <<x>> \o SubSeq(s, j + 1, Len(s))

\* chrome.bookmarks.move rejects an unknown id or parent, a root, a parent that
\* is not a folder or lies below the node, and an index beyond the children.
CanMove(st, id, parentId, index) ==
    /\ Exists(st, id)
    /\ id \notin Roots
    /\ Exists(st, parentId)
    /\ ~Truthy(st[parentId].url)
    /\ parentId \notin Descendants(st, id)
    /\ index \in 0..Len(st[parentId].kids)

\* Mutant: the node is put first among the children of the destination.
moveBookmarkFirst(st, id, parentId, index) ==
    LET old == ParentOf(st, id)
        out == [st EXCEPT ![old].kids = RemoveFromSeq(@, id)]
    IN  [out EXCEPT ![parentId].kids = <<id>> \o @]

\* chrome.bookmarks.move(id, {parentId, index}): the node leaves its parent and
\* enters parentId at index; index counts the children as they were before the
\* move, so within one parent a move to a later place lands one earlier.
moveBookmark(st, id, parentId, index) ==
    LET old == ParentOf(st, id)
        was == IndexOf(st, id)
        out == [st EXCEPT ![old].kids = RemoveFromSeq(@, id)]
        j == IF old = parentId /\ index > was THEN index - 1 ELSE index
    IN  [out EXCEPT ![parentId].kids = InsertAt(@, j, id)]

\* chrome.bookmarks.update(id, {title, url}).
updateBookmark(st, id, title, url) ==
    [st EXCEPT ![id].title = title, ![id].url = url]

\* chrome.bookmarks.remove rejects an unknown id, a root and a folder that is
\* not empty.
CanRemove(st, id) ==
    /\ Exists(st, id)
    /\ id \notin Roots
    /\ st[id].kids = <<>>

\* chrome.bookmarks.remove(id): the node leaves its parent and the store.
removeBookmark(st, id) ==
    [i \in DOMAIN st \ {id} |-> [st[i] EXCEPT !.kids = RemoveFromSeq(@, id)]]

\* chrome.bookmarks.create rejects an unknown parent, a parent that is not a
\* folder and an index beyond the children.
CanCreate(st, parentId, index) ==
    /\ Exists(st, parentId)
    /\ ~Truthy(st[parentId].url)
    /\ index \in 0..Len(st[parentId].kids)

\* chrome.bookmarks.create({parentId, title, url, index}): the node gets the id
\* the store assigns and enters parentId at index.
createBookmarkAt(st, parentId, index, title, url, id) ==
    [i \in DOMAIN st \cup {id} |->
        IF i = id THEN Node(title, url, <<>>)
        ELSE IF i = parentId THEN [st[i] EXCEPT !.kids = InsertAt(@, index, id)]
        ELSE st[i]]

\* One entry of previousState.bookmarks / newState.bookmarks /
\* newState.createdBookmarks.
Entry(id, parentId, index, title, url) ==
    [id |-> id, parentId |-> parentId, index |-> index, title |-> title, url |-> url]

\* An UndoFrame; timestamp and description play no part in undo and redo.
Frame(id, type, affected, previous, new) ==
    [id |-> id, type |-> type, affectedBookmarks |-> affected,
     previousState |-> previous, newState |-> new]

NoFrame == Frame(0, "none", <<>>, <<>>, <<>>)

\* A frame without id, as the caller passes it to addUndoFrame: the title of
\* bookmark 3 was changed from "A" to "B".
UpdateFrame == Frame(0, "update", <<3>>, <<Entry(3, BarRoot, 0, "A", "ua")>>,
                                         <<Entry(3, BarRoot, 0, "B", "ua")>>)

\* positions (id, parentId, index) of every node of st below the roots
RECURSIVE PositionsBelow(_, _)
PositionsBelow(st, p) ==
    LET k == st[p].kids
        RECURSIVE Walk(_)
        Walk(j) == IF j > Len(k) THEN <<>>
                   ELSE <<Entry(k[j], p, j - 1, st[k[j]].title, st[k[j]].url)>>
                        \o PositionsBelow(st, k[j]) \o Walk(j + 1)
    IN  Walk(1)

Positions(st) == PositionsBelow(st, BarRoot) \o PositionsBelow(st, OtherRoot)

Ids(entries) == [j \in 1..Len(entries) |-> entries[j].id]

\* bookmarks?.find((b) => b.id === bookmarkId)
Find(entries, id) ==
    LET hits == {j \in 1..Len(entries) : entries[j].id = id}
    IN  IF hits = {} THEN <<>>
        ELSE LET j == CHOOSE x \in hits : \A y \in hits : x <= y
             IN  <<entries[j]>>

RECURSIVE MoveCalls(_, _)
\* applyReorganizeUndo / applyReorganizeRedo: a moveBookmark for every affected
\* id that has an entry in the recorded state.
MoveCalls(affected, entries) ==
    IF affected = <<>> THEN <<>>
    ELSE LET hit == Find(entries, Head(affected))
         IN  (IF hit = <<>> THEN <<>>
              ELSE <<[op |-> "move", b |-> hit[1]]>>)
             \o MoveCalls(Tail(affected), entries)

\* applyUpdateUndo / applyUpdateRedo: an updateBookmark for every recorded entry.
UpdateCalls(entries) == [j \in 1..Len(entries) |-> [op |-> "update", b |-> entries[j]]]

\* applyCreateUndo: a removeBookmark for every affected id.
RemoveCalls(affected) ==
    [j \in 1..Len(affected) |-> [op |-> "remove", b |-> [id |-> affected[j]]]]

\* applyCreateRedo: a createBookmark for every entry of newState.createdBookmarks.
CreateCalls(entries) == [j \in 1..Len(entries) |-> [op |-> "create", b |-> entries[j]]]

\* applyUndoFrame(frame): the store calls it makes, in order.
applyUndoFrame(frame) ==
    IF frame.type = "reorganize" THEN MoveCalls(frame.affectedBookmarks, frame.previousState)
    ELSE IF frame.type = "update" THEN UpdateCalls(frame.previousState)
    ELSE IF frame.type = "create" THEN RemoveCalls(frame.affectedBookmarks)
    ELSE <<>>

\* applyRedoFrame(frame): the store calls it makes, in order.
applyRedoFrame(frame) ==
    IF frame.type = "reorganize" THEN MoveCalls(frame.affectedBookmarks, frame.newState)
    ELSE IF frame.type = "update" THEN UpdateCalls(frame.newState)
    ELSE IF frame.type = "create" THEN CreateCalls(frame.newState)
    ELSE <<>>

\* Whether the store accepts a call, and the store after it.
Accepts(st, c) ==
    IF c.op = "move" THEN CanMove(st, c.b.id, c.b.parentId, c.b.index)
    ELSE IF c.op = "remove" THEN CanRemove(st, c.b.id)
    ELSE IF c.op = "create" THEN CanCreate(st, c.b.parentId, c.b.index)
    ELSE Exists(st, c.b.id)

\* A node created by the call gets the next id of the store.
After(st, c) ==
    IF c.op = "move" THEN moveBookmark(st, c.b.id, c.b.parentId, c.b.index)
    ELSE IF c.op = "remove" THEN removeBookmark(st, c.b.id)
    ELSE IF c.op = "create"
         THEN createBookmarkAt(st, c.b.parentId, c.b.index, c.b.title, c.b.url, nextId)
    ELSE updateBookmark(st, c.b.id, c.b.title, c.b.url)

UnusedCall == [op |-> "none", frame |-> NoFrame, todo |-> <<>>, stale |-> FALSE]
DoneCall == [UnusedCall EXCEPT !.op = "done"]

InFlight == {k \in DOMAIN calls : calls[k].op \in {"undo", "redo"}}
CallsUsed == Cardinality({k \in DOMAIN calls : calls[k].op # "none"})

canUndo == Len(undoStack) > 0
canRedo == Len(redoStack) > 0

StackQuiet ==
    /\ undoStack = <<>>
    /\ redoStack = <<>>
    /\ calls = [k \in 1..MaxCalls |-> UnusedCall]
    /\ nextFrame = 0
    /\ evicted = {}

(***************************************************************************)
(* Specification of the normalizer alone                                   *)
(***************************************************************************)

NormInit ==
    /\ nCand \in Candidates
    /\ nBk \in BookmarkLists
    /\ nOut = <<>>
    /\ nTwice = <<>>
    /\ nPc = "input"
    /\ AppQuiet
    /\ StackQuiet
    /\ TextQuiet

Normalize ==
    /\ nPc = "input"
    /\ nOut' = normalizeCategorizationOutput(nCand, nBk)
    /\ nPc' = "once"
    /\ UNCHANGED <<nCand, nBk, nTwice>>
    /\ UNCHANGED <<appVars, stackVars, textVars>>

NormalizeAgain ==
    /\ nPc = "once"
    /\ nTwice' = normalizeCategorizationOutput(AsJson(nOut), nBk)
    /\ nPc' = "twice"
    /\ UNCHANGED <<nCand, nBk, nOut>>
    /\ UNCHANGED <<appVars, stackVars, textVars>>

NormNext == Normalize \/ NormalizeAgain

SpecNorm == NormInit /\ [][NormNext]_vars

(***************************************************************************)
(* Specification of the application runs against the store                 *)
(***************************************************************************)

RECURSIVE LastPath(_, _)
\* id and the last child of id, and its last child, and so on.
LastPath(st, id) ==
    {id} \cup (IF st[id].kids = <<>> THEN {}
               ELSE LastPath(st, st[id].kids[Len(st[id].kids)]))

\* The user adds a bookmark or a folder in the browser, before the engine is used.
\* Every tree under the two roots is built once: its nodes are added in document
\* order ('1' before '2'), so a node is added at the end of the tree so far.
UserCreate(parent, t, u) ==
    /\ started = 0
    /\ ~aiCategorizedBookmarks.has
    /\ nextId < 3 + MaxUserNodes
    /\ Exists(store, parent)
    /\ ~Truthy(store[parent].url)
    /\ \/ parent \in LastPath(store, OtherRoot)
       \/ store[OtherRoot].kids = <<>> /\ parent \in LastPath(store, BarRoot)
    /\ store' = createBookmark(store, parent, t, u, nextId)
    /\ nextId' = nextId + 1
    /\ UNCHANGED <<aiCategorizedBookmarks, bookmarkBackup, hasAppliedChanges,
                   bookmarkError, runs, started, failures, mon>>
    /\ UNCHANGED <<normVars, stackVars, textVars>>

\* The "Scan My Library" button is rendered while no mapping is shown.
ScanButtonShown == ~aiCategorizedBookmarks.has

\* handleScanLibrary: the bookmarks of mockBookmarks go to categorizeBookmarks and
\* the mapping it returns becomes aiCategorizedBookmarks. The store is not read.
handleScanLibrary(reply) ==
    /\ ScanButtonShown
    /\ aiCategorizedBookmarks' =
          [has |-> TRUE, m |-> categorizeBookmarks(reply, MockBookmarks)]
    /\ UNCHANGED <<store, nextId, bookmarkBackup, hasAppliedChanges, bookmarkError,
                   runs, started, failures, mon>>
    /\ UNCHANGED <<normVars, stackVars, textVars>>

\* The "Apply Changes" button is rendered (and never disabled) while a mapping is
\* shown and no Apply has completed.
ApplyButtonShown == aiCategorizedBookmarks.has /\ ~hasAppliedChanges
\* The "Undo Changes" button is rendered once an Apply has completed.
UndoButtonShown == aiCategorizedBookmarks.has /\ hasAppliedChanges

\* handleApplyChanges is invoked: the guard of line 474, then the two
\* snapshotChildren calls are issued together.
StartApply ==
    /\ started < MaxRuns
    /\ ApplyButtonShown
    /\ aiCategorizedBookmarks.has
    /\ started' = started + 1
    /\ runs' = [runs EXCEPT ![started + 1] =
                  [UnusedRun EXCEPT !.kind = "apply", !.pc = "snap",
                                    !.structure = aiCategorizedBookmarks.m]]
    /\ mon' = IF ActiveRuns = {}
              THEN [NoMon EXCEPT !.stage = "applying", !.pre = RootsTree(store),
                                !.store0 = store]
              ELSE NoMon
    /\ UNCHANGED <<store, nextId, aiCategorizedBookmarks, bookmarkBackup,
                   hasAppliedChanges, bookmarkError, failures>>
    /\ UNCHANGED <<normVars, stackVars, textVars>>

\* handleUndoChanges is invoked: the guard of line 619, then the two
\* deleteAllChildren calls are issued together.
StartUndo ==
    /\ started < MaxRuns
    /\ UndoButtonShown
    /\ bookmarkBackup.held
    /\ started' = started + 1
    /\ runs' = [runs EXCEPT ![started + 1] =
                  [UnusedRun EXCEPT !.kind = "undo", !.pc = "clear",
                                    !.bk = bookmarkBackup,
                                    !.ch = [r \in Roots |-> FetchChain]]]
    /\ mon' = IF ActiveRuns = {} /\ mon.stage = "applied"
              THEN [mon EXCEPT !.stage = "undoing", !.used = bookmarkBackup]
              ELSE NoMon
    /\ UNCHANGED <<store, nextId, aiCategorizedBookmarks, bookmarkBackup,
                   hasAppliedChanges, bookmarkError, failures>>
    /\ UNCHANGED <<normVars, stackVars, textVars>>

\* What is kept of a run once it has returned ("ok") or thrown ("fail"): a
\* deleteAllChildren call of a failed Promise.all keeps running.
Settled(run) ==
    IF run.pc = "ok" THEN [UnusedRun EXCEPT !.kind = run.kind, !.pc = "done"]
    ELSE IF run.pc = "fail"
         THEN [UnusedRun EXCEPT !.kind = run.kind, !.pc = "failed", !.ch = run.ch]
         ELSE run

\* The observer follows an Apply that ran alone and the Undo that follows it alone.
Observe(run, st) ==
    IF run.pc = "fail" THEN NoMon
    ELSE IF run.pc = "ok" /\ run.kind = "apply" /\ mon.stage = "applying"
         THEN [mon EXCEPT !.stage = "applied", !.post = RootsTree(st)]
    ELSE IF run.pc = "ok" /\ run.kind = "undo" /\ mon.stage = "undoing"
         THEN [mon EXCEPT !.stage = "undone", !.final = RootsTree(st),
                          !.resnap = [held |-> TRUE,
                                      bar |-> snapshotChildren(st, BarRoot),
                                      other |-> snapshotChildren(st, OtherRoot)]]
    ELSE mon

\* The state after one step of run k: the tail of the handler runs when the step
\* was its last one (setHasAppliedChanges(true) / setHasAppliedChanges(false),
\* setBookmarkBackup(null), buildTreeStructure), the catch block when it threw.
Commit(k, run, st, nid, bk, fl) ==
    /\ runs' = [runs EXCEPT ![k] = Settled(run)]
    /\ store' = st
    /\ nextId' = nid
    /\ failures' = fl
    /\ hasAppliedChanges' =
          IF run.pc = "ok" THEN run.kind = "apply" ELSE hasAppliedChanges
    /\ bookmarkBackup' =
          IF run.pc = "ok" /\ run.kind = "undo" THEN NoBackup ELSE bk
    /\ bookmarkError' =
          IF run.pc = "fail" /\ run.kind = "apply" THEN TRUE
          ELSE IF run.pc = "ok" THEN FALSE
          ELSE bookmarkError
    /\ mon' = Observe(run, st)
    /\ UNCHANGED <<aiCategorizedBookmarks, started>>
    /\ UNCHANGED <<normVars, stackVars, textVars>>

NonEmptyFrames(work) == SelectSeq(work, LAMBDA f : f.nodes # <<>>)

\* Both deleteAllChildren calls have returned: the handler goes on to Recreate
\* (forward) or to restoreChildren('1', bar) then restoreChildren('2', other).
AfterClear(run) ==
    IF run.kind = "apply"
    THEN IF run.structure = <<>> THEN [run EXCEPT !.pc = "ok"]
         ELSE [run EXCEPT !.pc = "recreate", !.cat = 1, !.ent = 0]
    ELSE LET w == NonEmptyFrames(<<[parent |-> BarRoot, nodes |-> run.bk.bar],
                                   [parent |-> OtherRoot, nodes |-> run.bk.other]>>)
         IN  IF w = <<>> THEN [run EXCEPT !.pc = "ok"]
             ELSE [run EXCEPT !.pc = "restore", !.work = w]

AfterChain(run) ==
    IF run.pc = "clear" /\ \A r \in Roots : run.ch[r].st = "done"
    THEN AfterClear(run)
    ELSE run

\* A store call of deleteAllChildren(r) threw: Promise.all rejects (once).
ChainThrew(run, r) ==
    IF run.pc = "clear"
    THEN [run EXCEPT !.pc = "fail", !.ch[r] = DoneChain]
    ELSE [run EXCEPT !.ch[r] = DoneChain]

\* snapshotChildren(r) of run k returns; with the second one the backup is stored
\* and the two deleteAllChildren calls are issued.
SnapshotResolves(k, r) ==
    LET run == runs[k]
        snap == snapshotChildren(store, r)
        run1 == IF r = BarRoot THEN [run EXCEPT !.bar = Got(snap)]
                ELSE [run EXCEPT !.other = Got(snap)]
        both == run1.bar.got /\ run1.other.got
        run2 == IF both
                THEN [run1 EXCEPT !.pc = "clear", !.bar = Pending, !.other = Pending,
                                  !.ch = [x \in Roots |-> FetchChain]]
                ELSE run1
        bk2 == IF both
               THEN [held |-> TRUE, bar |-> run1.bar.v, other |-> run1.other.v]
               ELSE bookmarkBackup
    IN  /\ run.pc = "snap"
        /\ ~(IF r = BarRoot THEN run.bar.got ELSE run.other.got)
        /\ Commit(k, run2, store, nextId, bk2, failures)

\* getSubTree of run k throws.
SnapshotFails(k, r) ==
    LET run == runs[k]
    IN  /\ run.pc = "snap"
        /\ ~(IF r = BarRoot THEN run.bar.got ELSE run.other.got)
        /\ failures < MaxFailures
        /\ Commit(k, [run EXCEPT !.pc = "fail"], store, nextId, bookmarkBackup,
                  failures + 1)

\* getChildren(r) of deleteAllChildren returns the children to remove.
ChildrenResolve(k, r) ==
    LET run == runs[k]
        kids == getChildren(store, r)
        run1 == [run EXCEPT !.ch[r] = IF kids = <<>> THEN DoneChain
                                      ELSE [st |-> "rm", todo |-> kids]]
    IN  /\ run.ch[r].st = "fetch"
        /\ Commit(k, AfterChain(run1), store, nextId, bookmarkBackup, failures)

\* getChildren(r) throws.
ChildrenFail(k, r) ==
    LET run == runs[k]
    IN  /\ run.ch[r].st = "fetch"
        /\ failures < MaxFailures
        /\ Commit(k, ChainThrew(run, r), store, nextId, bookmarkBackup, failures + 1)

\* removeBookmarkTree(child.id) of deleteAllChildren(r) succeeds.
RemoveChild(k, r) ==
    LET run == runs[k]
        id == Head(run.ch[r].todo)
        rest == Tail(run.ch[r].todo)
        run1 == [run EXCEPT !.removed = TRUE,
                            !.ch[r] = IF rest = <<>> THEN DoneChain
                                      ELSE [st |-> "rm", todo |-> rest]]
    IN  /\ run.ch[r].st = "rm"
        /\ Exists(store, id)
        /\ Commit(k, AfterChain(run1), removeBookmarkTree(store, id), nextId,
                  bookmarkBackup, failures)

\* removeBookmarkTree(child.id) throws: the node is gone already, or the store fails.
RemoveFails(k, r) ==
    LET run == [runs[k] EXCEPT !.removed = TRUE]
        id == Head(run.ch[r].todo)
    IN  /\ run.ch[r].st = "rm"
        /\ \/ /\ ~Exists(store, id)
              /\ Commit(k, ChainThrew(run, r), store, nextId, bookmarkBackup, failures)
           \/ /\ Exists(store, id)
              /\ failures < MaxFailures
              /\ Commit(k, ChainThrew(run, r), store, nextId, bookmarkBackup,
                        failures + 1)

\* Mutant: the Recreate loop stops after the first category.
AdvanceEarly(run) ==
    IF run.ent <= Len(run.structure[run.cat].items) THEN run
    ELSE [run EXCEPT !.pc = "ok"]

\* Position of the Recreate loop after a create has returned.
Advance(run) ==
    IF run.ent <= Len(run.structure[run.cat].items) THEN run
    ELSE IF run.cat = Len(run.structure) THEN [run EXCEPT !.pc = "ok"]
    ELSE [run EXCEPT !.cat = @ + 1, !.ent = 0, !.folder = 0]

\* Mutant: the bookmarks of a category are created under '1', not in its folder.
RecreateStepUnderRoot(k) ==
    LET run == runs[k]
        c == run.structure[run.cat]
    IN  /\ run.pc = "recreate"
        /\ IF run.ent = 0
           THEN Commit(k, Advance([run EXCEPT !.folder = nextId, !.ent = 1]),
                       createBookmark(store, BarRoot, c.cat, NoUrl, nextId),
                       nextId + 1, bookmarkBackup, failures)
           ELSE Commit(k, Advance([run EXCEPT !.ent = @ + 1]),
                       createBookmark(store, BarRoot, c.items[run.ent].title,
                                      c.items[run.ent].url, nextId),
                       nextId + 1, bookmarkBackup, failures)

\* One createBookmark of the Recreate loop: the folder of the category (ent = 0,
\* under '1'), or the next bookmark of the category under the folder just created.
RecreateStep(k) ==
    LET run == runs[k]
        c == run.structure[run.cat]
    IN  /\ run.pc = "recreate"
        /\ IF run.ent = 0
           THEN Commit(k, Advance([run EXCEPT !.folder = nextId, !.ent = 1]),
                       createBookmark(store, BarRoot, c.cat, NoUrl, nextId),
                       nextId + 1, bookmarkBackup, failures)
           ELSE /\ Exists(store, run.folder)
                /\ Commit(k, Advance([run EXCEPT !.ent = @ + 1]),
                          createBookmark(store, run.folder, c.items[run.ent].title,
                                         c.items[run.ent].url, nextId),
                          nextId + 1, bookmarkBackup, failures)

\* A createBookmark of the Recreate loop throws.
RecreateFails(k) ==
    LET run == runs[k]
    IN  /\ run.pc = "recreate"
        /\ \/ /\ run.ent > 0
              /\ ~Exists(store, run.folder)
              /\ Commit(k, [run EXCEPT !.pc = "fail"], store, nextId, bookmarkBackup,
                        failures)
           \/ /\ run.ent = 0 \/ Exists(store, run.folder)
              /\ failures < MaxFailures
              /\ Commit(k, [run EXCEPT !.pc = "fail"], store, nextId, bookmarkBackup,
                        failures + 1)

\* Mutant: restoreChildren does not descend into the folder it created.
RestoreInnerNone(n, folderId) == <<>>

\* if (n.children && n.children.length > 0) await restoreChildren(folder.id, n.children)
\* in the folder branch: the call pushed on top of the current one.
RestoreInner(n, folderId) ==
    IF ~Truthy(n.url) /\ Len(n.children) > 0
    THEN <<[parent |-> folderId, nodes |-> n.children]>>
    ELSE <<>>

\* One createBookmark of restoreChildren: a bookmark if n.url is truthy, otherwise
\* a folder, into which restoreChildren recurses when it has children.
RestoreStep(k) ==
    LET run == runs[k]
        f == Head(run.work)
        n == Head(f.nodes)
        rest == [f EXCEPT !.nodes = Tail(@)]
        inner == RestoreInner(n, nextId)
        work2 == NonEmptyFrames(inner \o <<rest>> \o Tail(run.work))
        run2 == IF work2 = <<>> THEN [run EXCEPT !.pc = "ok"]
                ELSE [run EXCEPT !.work = work2]
    IN  /\ run.pc = "restore"
        /\ Exists(store, f.parent)
        /\ Commit(k, run2,
                  createBookmark(store, f.parent, n.title,
                                 IF Truthy(n.url) THEN n.url ELSE NoUrl, nextId),
                  nextId + 1, bookmarkBackup, failures)

\* A createBookmark of restoreChildren throws.
RestoreFails(k) ==
    LET run == runs[k]
        f == Head(run.work)
    IN  /\ run.pc = "restore"
        /\ \/ /\ ~Exists(store, f.parent)
              /\ Commit(k, [run EXCEPT !.pc = "fail"], store, nextId, bookmarkBackup,
                        failures)
           \/ /\ Exists(store, f.parent)
              /\ failures < MaxFailures
              /\ Commit(k, [run EXCEPT !.pc = "fail"], store, nextId, bookmarkBackup,
                        failures + 1)

AppInit == AppQuiet /\ NormQuiet /\ StackQuiet /\ TextQuiet

AppNext ==
    \/ \E p \in DOMAIN store, b \in UserLeaves : UserCreate(p, b.title, b.url)
    \/ \E p \in DOMAIN store : UserCreate(p, UserFolderTitle, NoUrl)
    \/ \E reply \in ModelReplies : handleScanLibrary(reply)
    \/ StartApply
    \/ StartUndo
    \/ \E k \in 1..MaxRuns, r \in Roots : SnapshotResolves(k, r)
    \/ \E k \in 1..MaxRuns, r \in Roots : SnapshotFails(k, r)
    \/ \E k \in 1..MaxRuns, r \in Roots : ChildrenResolve(k, r)
    \/ \E k \in 1..MaxRuns, r \in Roots : ChildrenFail(k, r)
    \/ \E k \in 1..MaxRuns, r \in Roots : RemoveChild(k, r)
    \/ \E k \in 1..MaxRuns, r \in Roots : RemoveFails(k, r)
    \/ \E k \in 1..MaxRuns : RecreateStep(k)
    \/ \E k \in 1..MaxRuns : RecreateFails(k)
    \/ \E k \in 1..MaxRuns : RestoreStep(k)
    \/ \E k \in 1..MaxRuns : RestoreFails(k)

SpecApp == AppInit /\ [][AppNext]_vars

(***************************************************************************)
(* Actions of the UndoRedoStack                                            *)
(***************************************************************************)

Drop1(s) == SubSeq(s, 2, Len(s))
Keep(s, n) == SubSeq(s, 1, IF Len(s) < n THEN Len(s) ELSE n)

\* Mutant: the redo stack survives the recording of a new frame.
addUndoFrameKeepRedo(frame) ==
    LET newFrame == [frame EXCEPT !.id = nextFrame + 1]
    IN  /\ nextFrame < MaxFrames
        /\ nextFrame' = nextFrame + 1
        /\ undoStack' = <<newFrame>> \o Keep(undoStack, KeepPrev)
        /\ evicted' = evicted \cup
                      {undoStack[j].id : j \in (KeepPrev + 1)..Len(undoStack)}
        /\ UNCHANGED <<redoStack, calls, appVars, normVars, textVars>>

\* addUndoFrame(frame): setUndoStack(prev => [newFrame, ...prev.slice(0, 49)]);
\* setRedoStack([]).
addUndoFrame(frame) ==
    LET newFrame == [frame EXCEPT !.id = nextFrame + 1]
    IN  /\ nextFrame < MaxFrames
        /\ nextFrame' = nextFrame + 1
        /\ undoStack' = <<newFrame>> \o Keep(undoStack, KeepPrev)
        /\ redoStack' = <<>>
        /\ evicted' = evicted \cup
                      {undoStack[j].id : j \in (KeepPrev + 1)..Len(undoStack)}
        /\ UNCHANGED <<calls, appVars, normVars, textVars>>

\* The observer follows the undo and then the redo of the frame that records
\* the Apply it has seen.
StackObserve(kind, frame, st) ==
    IF frame.type = "reorganize" /\ kind = "undo" /\ mon.stage = "applied"
    THEN [mon EXCEPT !.stage = "frame undone"]
    ELSE IF frame.type = "reorganize" /\ kind = "redo" /\ mon.stage = "frame undone"
         THEN [mon EXCEPT !.stage = "frame redone", !.final = RootsTree(st)]
    ELSE IF frame.type = "create" /\ kind = "undo" /\ mon.stage = "none"
         THEN [mon EXCEPT !.stage = "create undone", !.pre = RootsTree(st)]
    ELSE IF frame.type = "create" /\ kind = "redo" /\ mon.stage = "create undone"
         THEN [mon EXCEPT !.stage = "create redone", !.post = RootsTree(st)]
    ELSE IF frame.type = "create" /\ kind = "undo" /\ mon.stage = "create redone"
         THEN [mon EXCEPT !.stage = "create undone again", !.final = RootsTree(st)]
    ELSE mon

\* After the await of performUndo: setUndoStack(prev => prev.slice(1));
\* setRedoStack(prev => [frameToUndo, ...prev]). After the await of performRedo:
\* setRedoStack(prev => prev.slice(1)); setUndoStack(prev => [frameToRedo, ...prev]).
Finish(k, kind, frame, st) ==
    /\ undoStack' = IF kind = "undo" THEN Drop1(undoStack) ELSE <<frame>> \o undoStack
    /\ redoStack' = IF kind = "undo" THEN <<frame>> \o redoStack ELSE Drop1(redoStack)
    /\ calls' = [calls EXCEPT ![k] = [DoneCall EXCEPT !.stale = frame.id \in evicted]]
    /\ store' = st
    /\ mon' = StackObserve(kind, frame, st)

\* An invocation begins: its frame is taken from the stack of the current
\* render, and the handler runs up to its first store call. A handler that makes
\* no store call is over before any other event is handled.
Invoke(kind, frame, todo) ==
    LET k == CallsUsed + 1
    IN  /\ CallsUsed < MaxCalls
        /\ IF todo = <<>>
           THEN Finish(k, kind, frame, store)
           ELSE /\ calls' = [calls EXCEPT ![k] =
                               [op |-> kind, frame |-> frame, todo |-> todo,
                                stale |-> frame.id \in evicted]]
                /\ UNCHANGED <<undoStack, redoStack, store, mon>>
        /\ UNCHANGED <<nextFrame, evicted, normVars, textVars>>
        /\ UNCHANGED <<nextId, aiCategorizedBookmarks, bookmarkBackup,
                       hasAppliedChanges, bookmarkError, runs, started, failures>>

\* performUndo(): if (!canUndo) return; frameToUndo = undoStack[0].
performUndo ==
    /\ canUndo
    /\ Invoke("undo", undoStack[1], applyUndoFrame(undoStack[1]))

\* performRedo(): if (!canRedo) return; frameToRedo = redoStack[0].
performRedo ==
    /\ canRedo
    /\ Invoke("redo", redoStack[1], applyRedoFrame(redoStack[1]))

\* The store call an invocation awaits resolves: the next one is issued, or the
\* handler has returned and the stacks are updated.
StoreCallResolves(k) ==
    LET call == calls[k]
        c == Head(call.todo)
        st == After(store, c)
    IN  /\ k \in InFlight
        /\ Accepts(store, c)
        /\ IF Tail(call.todo) = <<>>
           THEN Finish(k, call.op, call.frame, st)
           ELSE /\ calls' = [calls EXCEPT ![k].todo = Tail(@)]
                /\ store' = st
                /\ UNCHANGED <<undoStack, redoStack, mon>>
        /\ nextId' = IF c.op = "create" THEN nextId + 1 ELSE nextId
        /\ UNCHANGED <<nextFrame, evicted, normVars, textVars>>
        /\ UNCHANGED <<aiCategorizedBookmarks, bookmarkBackup,
                       hasAppliedChanges, bookmarkError, runs, started, failures>>

\* Mutant: the frame is moved to the other stack although its handler threw.
StoreCallRejectsMoves(k) ==
    /\ k \in InFlight
    /\ ~Accepts(store, Head(calls[k].todo))
    /\ Finish(k, calls[k].op, calls[k].frame, store)
    /\ UNCHANGED <<nextFrame, evicted, normVars, textVars>>
    /\ UNCHANGED <<nextId, aiCategorizedBookmarks, bookmarkBackup,
                   hasAppliedChanges, bookmarkError, runs, started, failures>>

\* The store call an invocation awaits rejects: the catch block logs the error
\* and neither stack is touched.
StoreCallRejects(k) ==
    /\ k \in InFlight
    /\ ~Accepts(store, Head(calls[k].todo))
    /\ calls' = [calls EXCEPT ![k] = [DoneCall EXCEPT !.stale = calls[k].stale]]
    /\ UNCHANGED <<undoStack, redoStack, nextFrame, evicted, appVars, normVars, textVars>>

\* clearHistory(): setUndoStack([]); setRedoStack([]).
clearHistory ==
    /\ CallsUsed < MaxCalls
    /\ undoStack' = <<>>
    /\ redoStack' = <<>>
    /\ calls' = [calls EXCEPT ![CallsUsed + 1] = DoneCall]
    /\ UNCHANGED <<nextFrame, evicted, appVars, normVars, textVars>>

\* The hook on its own, over a store that holds the bookmark its frames name.
StackInit ==
    /\ NormQuiet
    /\ StackQuiet
    /\ TextQuiet
    /\ store = createBookmark(EmptyStore, BarRoot, "B", "ua", 3)
    /\ nextId = 4
    /\ aiCategorizedBookmarks = NoMapping
    /\ bookmarkBackup = NoBackup
    /\ hasAppliedChanges = FALSE
    /\ bookmarkError = FALSE
    /\ runs = [k \in 1..MaxRuns |-> UnusedRun]
    /\ started = 0
    /\ failures = 0
    /\ mon = NoMon

StackNext ==
    \/ addUndoFrame(UpdateFrame)
    \/ performUndo
    \/ performRedo
    \/ \E k \in 1..MaxCalls : StoreCallResolves(k)
    \/ clearHistory

SpecStack == StackInit /\ [][StackNext]_vars

(***************************************************************************)
(* The hook fed with the frame that records a forward Apply                *)
(***************************************************************************)

\* The 'reorganize' frames a caller can record for the Apply that has just
\* completed: previousState holds the positions before it, newState the
\* positions after it, affectedBookmarks the ids of either or both.
ReorganizeFrames ==
    LET previous == Positions(mon.store0)
        new == Positions(store)
    IN  {Frame(0, "reorganize", affected, previous, new) :
            affected \in {Ids(new), Ids(previous),
                          Ids(previous) \o Ids(new), Ids(new) \o Ids(previous)}}

RecordApply ==
    /\ mon.stage = "applied"
    /\ nextFrame = 0
    /\ \E frame \in ReorganizeFrames : addUndoFrame(frame)

ReorgNext ==
    \/ \E p \in DOMAIN store, b \in UserLeaves : UserCreate(p, b.title, b.url)
    \/ \E p \in DOMAIN store : UserCreate(p, UserFolderTitle, NoUrl)
    \/ \E reply \in ModelReplies : handleScanLibrary(reply)
    \/ started = 0 /\ StartApply
    \/ \E k \in 1..MaxRuns, r \in Roots : SnapshotResolves(k, r)
    \/ \E k \in 1..MaxRuns, r \in Roots : ChildrenResolve(k, r)
    \/ \E k \in 1..MaxRuns, r \in Roots : RemoveChild(k, r)
    \/ \E k \in 1..MaxRuns : RecreateStep(k)
    \/ RecordApply
    \/ performUndo
    \/ performRedo
    \/ \E k \in 1..MaxCalls : StoreCallResolves(k)
    \/ \E k \in 1..MaxCalls : StoreCallRejects(k)

SpecReorg == AppInit /\ [][ReorgNext]_vars

(***************************************************************************)
(* The hook fed with the frame that records created bookmarks              *)
(***************************************************************************)

MaxCreated == 2     \* bookmarks or folders the recorded create has made

\* What the caller has created: under either root, a bookmark or a folder.
CreatedNodes ==
    {[parentId |-> p, title |-> t, url |-> u] :
        p \in Roots, t \in {"A", "B"}, u \in {"ua", NoUrl}}

RECURSIVE CreateAll(_, _, _)
\* The store after the creates of the caller, the first one getting id.
CreateAll(st, nodes, id) ==
    IF nodes = <<>> THEN st
    ELSE CreateAll(createBookmark(st, Head(nodes).parentId, Head(nodes).title,
                                  Head(nodes).url, id),
                   Tail(nodes), id + 1)

\* The store before the create: bookmark 3 under '1'.
StoreBeforeCreate == createBookmark(EmptyStore, BarRoot, "C", "uc", 3)

\* The 'create' frame the caller records: the ids it created, and for each of
\* them the parentId, index, title and url to create it again.
CreateFrame(st) ==
    LET created == SelectSeq(Positions(st), LAMBDA e : e.id > 3)
    IN  Frame(0, "create", Ids(created), <<>>, created)

CreateInit ==
    /\ NormQuiet
    /\ StackQuiet
    /\ TextQuiet
    /\ \E nodes \in SeqsUpTo(CreatedNodes, MaxCreated) \ {<<>>} :
          /\ store = CreateAll(StoreBeforeCreate, nodes, 4)
          /\ nextId = 4 + Len(nodes)
    /\ aiCategorizedBookmarks = NoMapping
    /\ bookmarkBackup = NoBackup
    /\ hasAppliedChanges = FALSE
    /\ bookmarkError = FALSE
    /\ runs = [k \in 1..MaxRuns |-> UnusedRun]
    /\ started = 0
    /\ failures = 0
    /\ mon = NoMon

RecordCreate ==
    /\ nextFrame = 0
    /\ addUndoFrame(CreateFrame(store))

\* The invocations that have ended are forgotten: bookkeeping of the model, so
\* that a third and a fourth invocation can follow.
Recycle ==
    /\ InFlight = {}
    /\ CallsUsed = MaxCalls
    /\ calls' = [k \in 1..MaxCalls |-> UnusedCall]
    /\ UNCHANGED <<undoStack, redoStack, nextFrame, evicted, appVars, normVars, textVars>>

CreateNext ==
    \/ RecordCreate
    \/ performUndo
    \/ performRedo
    \/ \E k \in 1..MaxCalls : StoreCallResolves(k)
    \/ \E k \in 1..MaxCalls : StoreCallRejects(k)
    \/ Recycle

SpecCreate == CreateInit /\ [][CreateNext]_vars

(***************************************************************************)
(* Specification of categorizeBookmarks alone                              *)
(***************************************************************************)

CatInit ==
    /\ mAnswer \in ModelAnswers
    /\ mBk \in BookmarkLists
    /\ mOut = NotFound
    /\ mResult = <<>>
    /\ mPc = "asked"
    /\ NormQuiet
    /\ AppQuiet
    /\ StackQuiet

\* categorizeBookmarks(bookmarks), from the model's answer on.
Categorize ==
    /\ mPc = "asked"
    /\ mOut' = IF mAnswer.failed THEN NotFound ELSE extractJsonObject(mAnswer.text)
    /\ mResult' = categorizeBookmarks(ReplyOf(mAnswer), mBk)
    /\ mPc' = "returned"
    /\ UNCHANGED <<mAnswer, mBk, normVars, appVars, stackVars>>

CatNext == Categorize

SpecCat == CatInit /\ [][CatNext]_vars


(***************************************************************************)
(* Claims                                                                  *)
(***************************************************************************)

\* Number of (category, entry) places of the mapping that hold bookmark b.
Occurrences(mapping, b) ==
    SumSeq([i \in 1..Len(mapping) |->
        Cardinality({j \in 1..Len(mapping[i].items) : mapping[i].items[j] = b})])

\* C1: the normalized mapping holds every input bookmark, with its own title
\* and url, in exactly one category (none missing, none in two categories).
C1_Coverage ==
    nPc # "input" =>
        \A k \in 1..Len(nBk) : Occurrences(nOut, nBk[k]) = 1

\* C2: after a forward Apply that completed successfully, the (title, url) leaves
\* under the two roots are, as a multiset, the leaves that were there when the
\* Apply began.
C2_LeavesPreserved ==
    mon.stage = "applied" => SameLeafMultiset(mon.pre, mon.post)

\* C3: a successful Apply followed by a successful Undo leaves both roots with
\* the tree (title, url, child order, depth) they had before the Apply.
C3_ApplyUndoRestores ==
    mon.stage = "undone" => mon.final = mon.pre

\* C3 witness: an Apply and then an Undo have completed on a tree that had a
\* folder with a child followed by a sibling, and the Apply had changed the tree.
C3_Witness ==
    /\ mon.stage = "undone"
    /\ mon.post # mon.pre
    /\ Len(mon.pre[1]) >= 2
    /\ mon.pre[1][1].folder
    /\ mon.pre[1][1].sub # <<>>

\* C4: snapshot, clear, restore from the snapshot, snapshot again: the second
\* snapshot equals the first one at every level.
C4_SnapshotRoundTrip ==
    mon.stage = "undone" => mon.resnap = mon.used

\* C4 witness: the round trip has completed for a snapshot that holds a folder
\* nested in a folder, the inner one empty.
C4_Witness ==
    /\ mon.stage = "undone"
    /\ \E i \in 1..Len(mon.used.bar) :
          \E j \in 1..Len(mon.used.bar[i].children) :
             /\ mon.used.bar[i].children[j].url = NoUrl
             /\ mon.used.bar[i].children[j].children = <<>>

\* C8: no two runs that rewrite the roots are active at the same time.
C8_OneRunAtATime == Cardinality(ActiveRuns) <= 1

\* C7: at most one performUndo / performRedo invocation is in flight at any time.
C7_OneInFlight == Cardinality(InFlight) <= 1

\* C9: undoStack and redoStack hold at most 50 frames each in every reachable state.
C9_Capacity ==
    /\ Len(undoStack) <= KeepPrev + 1
    /\ Len(redoStack) <= KeepPrev + 1

FrameIds(stack) == {stack[j].id : j \in 1..Len(stack)}

\* C10: a frame addUndoFrame evicted is in neither stack afterwards, and no
\* performUndo or performRedo that begins afterwards applies it.
C10_EvictedGone ==
    /\ evicted \cap (FrameIds(undoStack) \cup FrameIds(redoStack)) = {}
    /\ \A k \in DOMAIN calls : ~calls[k].stale

C12_RoundTrip ==
    (mPc = "returned" /\ mAnswer.rendered) =>
        /\ mOut.found
        /\ JSONparse(mOut.json).v = mAnswer.value

\* C13: when no candidate is found in the model text, or the model call fails,
\* categorizeBookmarks returns the single category "Other" holding every input
\* bookmark under its own title and url, as the normalizer does for an empty
\* candidate.
C13_Fallback ==
    (mPc = "returned" /\ ~mOut.found) =>
        /\ Len(mResult) = 1
        /\ mResult[1].cat = "Other"
        /\ \A k \in 1..Len(mBk) :
              \E j \in 1..Len(mResult[1].items) : mResult[1].items[j] = mBk[k]
        /\ mResult = normalizeCategorizationOutput(JObj(<<>>), mBk)

\* C11: after an addUndoFrame call the new frame is first in undoStack, the
\* frames that were in undoStack follow it in their order, the oldest left out
\* when there were 50, and redoStack is empty.
C11_AddFront ==
    [][nextFrame' = nextFrame + 1 =>
          /\ undoStack'[1].id = nextFrame'
          /\ Len(undoStack') = 1 + (IF Len(undoStack) > KeepPrev THEN KeepPrev
                                    ELSE Len(undoStack))
          /\ \A j \in 2..Len(undoStack') : undoStack'[j] = undoStack[j - 1]
          /\ redoStack' = <<>>]_vars

\* C11 as stated: every frame that was in undoStack follows the new one.
C11_AddFrontAll ==
    [][nextFrame' = nextFrame + 1 =>
          /\ undoStack' = <<undoStack'[1]>> \o undoStack
          /\ redoStack' = <<>>]_vars

\* C11 witness: a frame has just been recorded on top of a full undoStack, after
\* an undo had put a frame on redoStack.
C11_Witness ==
    /\ Len(undoStack) = KeepPrev + 1
    /\ undoStack[1].id = nextFrame
    /\ redoStack = <<>>
    /\ evicted # {}
    /\ \E k \in DOMAIN calls : calls[k].op = "done"

\* C14: when a store call of an Apply or of a restore fails, the run ends with
\* the error state set, not only with a log entry.
C14_FailureSurfaced ==
    [][\A k \in DOMAIN runs :
          (runs[k].pc # "failed" /\ runs'[k].pc = "failed") => bookmarkError']_vars

\* C15: after an Apply that failed once its snapshot was stored, the snapshot is
\* held and the Undo that restores it can be started.
C15_RecoveryByUndo ==
    \A k \in DOMAIN runs :
        (runs[k].kind = "apply" /\ runs[k].pc = "failed" /\ bookmarkBackup.held
         /\ ActiveRuns = {})
            => UndoButtonShown

C17_MovesFront ==
    [][\A k \in DOMAIN calls :
          (calls[k].op \in {"undo", "redo"} /\ calls'[k].op = "done") =>
              LET from == IF calls[k].op = "undo" THEN undoStack ELSE redoStack
                  to == IF calls[k].op = "undo" THEN redoStack ELSE undoStack
                  fromAfter == IF calls[k].op = "undo" THEN undoStack' ELSE redoStack'
                  toAfter == IF calls[k].op = "undo" THEN redoStack' ELSE undoStack'
              IN  /\ from # <<>>
                  /\ from[1] = calls[k].frame
                  /\ fromAfter = Drop1(from)
                  /\ toAfter = <<calls[k].frame>> \o to]_vars

\* A removeBookmarkTree call of run k is issued (and returns or throws) in this step.
RemovalBy(k) ==
    \E r \in Roots : runs[k].ch[r].st = "rm" /\ runs'[k].ch[r] # runs[k].ch[r]

\* C18: when a forward Apply issues its first removeBookmarkTree, the snapshots
\* of both roots are stored as the backup and the backup describes the tree as
\* it is at that moment.
C18_BackupBeforeRemoval ==
    [][\A k \in DOMAIN runs :
          (runs[k].kind = "apply" /\ runs[k].pc = "clear" /\ ~runs[k].removed
              /\ RemovalBy(k)) =>
              /\ bookmarkBackup.held
              /\ bookmarkBackup.bar = snapshotChildren(store, BarRoot)
              /\ bookmarkBackup.other = snapshotChildren(store, OtherRoot)]_vars

\* What Recreate builds under '1' from a mapping: one folder per category in
\* category order, holding its bookmarks in entry order.
MappingForest(structure) ==
    [i \in 1..Len(structure) |->
        [title |-> structure[i].cat, url |-> NoUrl, folder |-> TRUE,
         sub |-> [j \in 1..Len(structure[i].items) |->
                    [title |-> structure[i].items[j].title,
                     url |-> structure[i].items[j].url,
                     folder |-> ~Truthy(structure[i].items[j].url),
                     sub |-> <<>>]]]]

\* Run k stops being in progress and reports completion in this step.
Completes(k) == runs[k].pc \in {"clear", "recreate", "restore"} /\ runs'[k].pc = "done"

\* C19: every create of the Recreate phase is the next one in category order
\* and entry order; a folder goes last under '1', a bookmark goes last under the
\* folder whose create returned before it, by the id that create returned; an
\* Apply that ran alone leaves under '1' exactly the folders of the mapping in
\* category order with their bookmarks in entry order.
C19_RecreateInOrder ==
    [][\A k \in DOMAIN runs :
          (runs[k].pc = "recreate" /\ runs'[k] # runs[k] /\ nextId' = nextId + 1) =>
              LET run == runs[k]
                  c == run.structure[run.cat]
                  new == store'[nextId]
              IN  /\ ~Exists(store, nextId)
                  /\ IF run.ent = 0
                     THEN /\ new = Node(c.cat, NoUrl, <<>>)
                          /\ store'[BarRoot].kids = Append(store[BarRoot].kids, nextId)
                          /\ runs'[k].pc = "recreate" /\ runs'[k].cat = run.cat
                                => runs'[k].folder = nextId /\ runs'[k].ent = 1
                     ELSE /\ new = Node(c.items[run.ent].title, c.items[run.ent].url, <<>>)
                          /\ store[run.folder].title = c.cat
                          /\ store'[run.folder].kids = Append(store[run.folder].kids, nextId)
                          /\ \E j \in 1..Len(store[BarRoot].kids) :
                                store[BarRoot].kids[j] = run.folder
                  /\ runs'[k].pc = "recreate" =>
                        \/ runs'[k].cat = run.cat /\ runs'[k].ent = run.ent + 1
                        \/ /\ run.ent = Len(c.items)
                           /\ runs'[k].cat = run.cat + 1 /\ runs'[k].ent = 0
                  /\ (Completes(k) /\ mon'.stage = "applied") =>
                        mon'.post = <<MappingForest(run.structure), <<>>>>]_vars

\* C19 witness: an Apply has completed alone for a mapping of two categories,
\* each holding a bookmark.
C19_Witness ==
    /\ mon.stage = "applied"
    /\ Len(mon.post[1]) = 2
    /\ mon.post[1][1].sub # <<>>
    /\ mon.post[1][2].sub # <<>>
    /\ mon.post[1][1].title # mon.post[1][2].title

RECURSIVE SnapshotSize(_)
\* The number of nodes of a snapshot, at every depth.
SnapshotSize(nodes) ==
    IF nodes = <<>> THEN 0
    ELSE 1 + SnapshotSize(Head(nodes).children) + SnapshotSize(Tail(nodes))

RECURSIVE ForestSize(_)
\* The number of nodes of an observed forest, at every depth.
ForestSize(forest) ==
    IF forest = <<>> THEN 0
    ELSE 1 + ForestSize(Head(forest).sub) + ForestSize(Tail(forest))

\* C20: hasAppliedChanges becomes true only in the step in which the last create
\* of the mapping returns; the backup is discarded and hasAppliedChanges becomes
\* false only in the step in which the last node of the snapshot is created; a
\* run that has thrown reports nothing, then or later.
C20_CompletionAfterAll ==
    [][/\ \A k \in DOMAIN runs :
            /\ (Completes(k) /\ runs[k].kind = "apply") =>
                  /\ runs[k].pc = "recreate"
                  /\ runs[k].cat = Len(runs[k].structure)
                  /\ runs[k].ent = Len(runs[k].structure[runs[k].cat].items)
                  /\ nextId' = nextId + 1
                  /\ hasAppliedChanges'
                  /\ mon'.stage = "applied" =>
                        ForestSize(mon'.post[1] \o mon'.post[2]) =
                           Len(runs[k].structure)
                             + SumSeq([i \in 1..Len(runs[k].structure) |->
                                          Len(runs[k].structure[i].items)])
            /\ (Completes(k) /\ runs[k].kind = "undo") =>
                  /\ \/ /\ runs[k].pc = "restore"
                        /\ Len(runs[k].work) = 1
                        /\ Len(runs[k].work[1].nodes) = 1
                        /\ RestoreInner(runs[k].work[1].nodes[1], nextId) = <<>>
                        /\ nextId' = nextId + 1
                     \/ /\ runs[k].pc = "clear"
                        /\ runs[k].bk.bar = <<>> /\ runs[k].bk.other = <<>>
                  /\ ~hasAppliedChanges' /\ ~bookmarkBackup'.held
                  /\ mon'.stage = "undone" =>
                        ForestSize(mon'.final[1] \o mon'.final[2]) =
                           SnapshotSize(mon'.used.bar) + SnapshotSize(mon'.used.other)
            /\ (runs[k].pc # "failed" /\ runs'[k].pc = "failed") =>
                  /\ hasAppliedChanges' = hasAppliedChanges
                  /\ bookmarkBackup' = bookmarkBackup
            /\ runs[k].pc = "failed" => runs'[k].pc = "failed"
       /\ (~hasAppliedChanges /\ hasAppliedChanges') =>
              \E k \in DOMAIN runs : Completes(k) /\ runs[k].kind = "apply"
       /\ (hasAppliedChanges /\ ~hasAppliedChanges') =>
              \E k \in DOMAIN runs : Completes(k) /\ runs[k].kind = "undo"
       /\ (bookmarkBackup.held /\ ~bookmarkBackup'.held) =>
              \E k \in DOMAIN runs : Completes(k) /\ runs[k].kind = "undo"]_vars

\* C20 witness: an Apply of a two-category mapping and then a restore of a
\* snapshot with a folder that holds a node have both reported completion.
C20_Witness ==
    /\ mon.stage = "undone"
    /\ ~hasAppliedChanges
    /\ ~bookmarkBackup.held
    /\ Len(mon.post[1]) = 2
    /\ SnapshotSize(mon.used.bar) + SnapshotSize(mon.used.other) >= 2
    /\ \A k \in DOMAIN runs : runs[k].pc = "done"

\* C21: a run that has thrown issues no further removeBookmarkTree call.
C21_NoCallAfterFailure ==
    [][\A k \in DOMAIN runs : runs[k].pc = "failed" => ~RemovalBy(k)]_vars

RECURSIVE PlainSnapshot(_)
\* Every node of a snapshot, at every depth, holds title, url and children only.
PlainSnapshot(nodes) ==
    \A j \in 1..Len(nodes) :
        /\ DOMAIN nodes[j] = {"title", "url", "children"}
        /\ PlainSnapshot(nodes[j].children)

\* C22: the stored backup holds titles, urls and children only, no store
\* mutation alters it (the restore that completes discards it), and the copy an
\* Undo in progress holds stays as it was taken.
C22_BackupUntouched ==
    [][/\ bookmarkBackup'.held =>
             PlainSnapshot(bookmarkBackup'.bar) /\ PlainSnapshot(bookmarkBackup'.other)
       /\ store' # store =>
             \/ bookmarkBackup' = bookmarkBackup
             \/ /\ bookmarkBackup' = NoBackup
                /\ \E k \in DOMAIN runs : Completes(k) /\ runs[k].kind = "undo"
       /\ \A k \in DOMAIN runs :
             (runs[k].pc \in {"clear", "restore"} /\ runs[k].kind = "undo"
                 /\ runs'[k].pc \in {"clear", "restore"}) => runs'[k].bk = runs[k].bk]_vars

\* C22 witness: a backup with a folder that holds a node is stored, and the live
\* tree has been changed since.
C22_Witness ==
    /\ bookmarkBackup.held
    /\ \E j \in 1..Len(bookmarkBackup.bar) : bookmarkBackup.bar[j].children # <<>>
    /\ bookmarkBackup.bar # snapshotChildren(store, BarRoot)
    /\ nextId > 3 + Len(Positions(store))

\* C23: once a forward Apply has completed, a frame of type reorganize is at the
\* front of undoStack.
C23_ApplyRecordsFrame ==
    (\E k \in DOMAIN runs : runs[k].kind = "apply" /\ runs[k].pc = "done") =>
        /\ undoStack # <<>>
        /\ undoStack[1].type = "reorganize"

\* C30: while an Apply that failed is on record, the held backup is not replaced
\* by another snapshot.
C30_BackupKept ==
    [][(/\ bookmarkBackup.held
        /\ \E k \in DOMAIN runs : runs[k].kind = "apply" /\ runs[k].pc = "failed"
        /\ bookmarkBackup'.held) => bookmarkBackup' = bookmarkBackup]_vars

\* C28: no frame occurs twice across undoStack and redoStack together.
C28_FramesOnce ==
    LET all == undoStack \o redoStack
    IN  \A i, j \in 1..Len(all) : all[i].id = all[j].id => i = j

\* C29: when the store call a performUndo or performRedo awaits is rejected,
\* the invocation ends and leaves undoStack and redoStack as they are.
C29_FailureKeepsStacks ==
    [][\A k \in DOMAIN calls :
          (/\ calls[k].op \in {"undo", "redo"}
           /\ ~Accepts(store, Head(calls[k].todo))
           /\ calls'[k].op = "done") =>
              undoStack' = undoStack /\ redoStack' = redoStack]_vars

\* C29 witness: the only invocation made was a performUndo that took store
\* calls and has ended, and its frame is still the one frame of undoStack.
C29_Witness ==
    /\ nextFrame = 1
    /\ CallsUsed = 1
    /\ calls[1].op = "done"
    /\ Len(undoStack) = 1
    /\ redoStack = <<>>
    /\ applyUndoFrame(undoStack[1]) # <<>>

\* C27: the undo that follows the undo and the redo of a create frame succeeds
\* and leaves the tree as it was before the create.
C27_CreateReplays ==
    [][\A k \in DOMAIN calls :
          (mon.stage = "create redone" /\ calls[k].op = "undo" /\ calls'[k].op = "done") =>
              /\ mon'.stage = "create undone again"
              /\ mon'.final = mon'.pre]_vars

\* C24: every category of the output but "Other" is a category of the candidate
\* whose value is a mapping, holds exactly the entries of that mapping whose url
\* is a string, in order, and is not empty; every url of the output is a string
\* of the inputs.
C24_OnlyValidEntries ==
    nPc = "once" =>
        \A i \in 1..Len(nOut) :
            /\ \A j \in 1..Len(nOut[i].items) : nOut[i].items[j].url \in Urls
            /\ nOut[i].cat # "Other" =>
                  /\ nOut[i].items # <<>>
                  /\ \E k \in 1..Len(nCand.e) :
                        LET strings == SelectSeq(nCand.e[k][2].e,
                                                 LAMBDA p : p[2].t = "str")
                        IN  /\ nCand.e[k][1] = nOut[i].cat
                            /\ nCand.e[k][2].t = "obj"
                            /\ Len(nOut[i].items) = Len(strings)
                            /\ \A j \in 1..Len(strings) :
                                  /\ nOut[i].items[j].title = strings[j][1]
                                  /\ nOut[i].items[j].url = strings[j][2].s

\* C24 witness: the normalizer has run on a candidate with one category whose
\* value is not a mapping and one whose entries have a url that is not a string.
C24_Witness ==
    /\ nPc = "once"
    /\ nCand.t = "obj"
    /\ \E k \in 1..Len(nCand.e) : nCand.e[k][2].t \in {"null", "str", "arr"}
    /\ \E k \in 1..Len(nCand.e) :
          /\ nCand.e[k][2].t = "obj"
          /\ nCand.e[k][2].e # <<>>
          /\ \A j \in 1..Len(nCand.e[k][2].e) : nCand.e[k][2].e[j][2].t # "str"

\* C25: from a text with two fenced blocks extractJsonObject returns the object
\* of the first block.
C25_FirstBlock ==
    (mPc = "returned" /\ mAnswer.kind = "blocks") =>
        mOut.found /\ JSONparse(mOut.json).v = mAnswer.value

\* C26: from a text whose first balanced region is an object that parses and
\* that holds further braces after it, extractJsonObject returns that object.
C26_FirstRegion ==
    (mPc = "returned" /\ mAnswer.kind = "braces") =>
        mOut.found /\ JSONparse(mOut.json).v = mAnswer.value

====
